---- MODULE Spec2Model ----
(***************************************************************************)
(* Stochastic wind field simulation: NumpyWindSimulator and                *)
(* JaxWindSimulator (spectral representation method).                      *)
(*                                                                         *)
(* Real numbers are exact rationals [n, d]; quantities whose value needs   *)
(* a transcendental function (power spectrum, coherence, Cholesky factor,  *)
(* inverse FFT) are kept as terms over the arguments the code passes.      *)
(***************************************************************************)
EXTENDS Integers, Sequences, FiniteSets, TLC

(***************************************************************************)
(* Bounds of the model.                                                    *)
(***************************************************************************)
\* default number of frequency segments, scaled down from 3000
DefaultN == 2
\* largest number of simulation points in one call
MaxPoints == 2
\* largest number of simulate_wind invocations on one simulator
MaxCalls == 2
\* largest number of keyword arguments in one update_parameters call
MaxOverrides == 2

(***************************************************************************)
(* Exact rational arithmetic.                                              *)
(***************************************************************************)
RECURSIVE GCD(_, _)
GCD(a, b) == IF b = 0 THEN a ELSE GCD(b, a % b)

Abs(x) == IF x < 0 THEN -x ELSE x

Norm(n, d) ==
    LET g == GCD(Abs(n), Abs(d))
        s == IF d < 0 THEN -1 ELSE 1
    IN  [n |-> (s * n) \div g, d |-> (s * d) \div g]

R(k) == [n |-> k, d |-> 1]

RAdd(a, b) == Norm(a.n * b.d + b.n * a.d, a.d * b.d)
RSub(a, b) == Norm(a.n * b.d - b.n * a.d, a.d * b.d)
RMul(a, b) == Norm(a.n * b.n, a.d * b.d)
RDiv(a, b) == Norm(a.n * b.d, a.d * b.n)
RLess(a, b) == a.n * b.d < b.n * a.d

Min(a, b) == IF a < b THEN a ELSE b

(***************************************************************************)
(* Parameter set.                                                          *)
(***************************************************************************)
\* dw = w_up / N and z_d = H_bar - z_0 / K, as both backends derive them
DeriveDependent(p) ==
    LET q == [p EXCEPT !["dw"] = RDiv(p["w_up"], p["N"])]
    IN  [q EXCEPT !["z_d"] = RSub(q["H_bar"], RDiv(q["z_0"], q["K"]))]

\* JaxWindSimulator._set_default_parameters
JaxDefaultParameters ==
    DeriveDependent(
        [K |-> Norm(2, 5), H_bar |-> R(10), z_0 |-> Norm(1, 20),
         C_x |-> R(16), C_y |-> R(6), C_z |-> R(10), w_up |-> R(5),
         N |-> R(DefaultN), M |-> R(2 * DefaultN), T |-> R(600),
         dt |-> Norm(1, 10), U_d |-> R(25), dw |-> R(0), z_d |-> R(0)])

\* NumpyWindSimulator._set_default_parameters
NumpyDefaultParameters ==
    DeriveDependent(
        [K |-> Norm(2, 5), H_bar |-> R(10), z_0 |-> Norm(1, 20),
         alpha_0 |-> Norm(4, 25),
         C_x |-> R(16), C_y |-> R(6), C_z |-> R(10), w_up |-> R(5),
         N |-> R(DefaultN), M |-> R(2 * DefaultN), T |-> R(600),
         dt |-> Norm(1, 10), U_d |-> R(25), dw |-> R(0), z_d |-> R(0)])

DefaultParameters(backend) ==
    IF backend = "numpy" THEN NumpyDefaultParameters ELSE JaxDefaultParameters

\* mutant: every name of kw is stored, a key of params or not
StoreOverrides(p, kw) ==
    [k \in DOMAIN p \cup DOMAIN kw |-> IF k \in DOMAIN kw THEN kw[k] ELSE p[k]]

\* the loop of update_parameters: a keyword is applied only if it is a key
ApplyOverrides(p, kw) ==
    [k \in DOMAIN p |-> IF k \in DOMAIN kw THEN kw[k] ELSE p[k]]

\* which names of kw the loop "if key in self.params" skips
Ignored(p, kw) ==
    IF DOMAIN kw \subseteq DOMAIN p THEN "no"
    ELSE IF DOMAIN kw \cap DOMAIN p = {} THEN "all"
    ELSE "some"

\* mutant: the dependent parameters are derived before the overrides land
UpdatedParamsStale(p, kw) == ApplyOverrides(DeriveDependent(p), kw)

\* update_parameters: overrides first, then the dependent parameters
UpdatedParams(p, kw) == DeriveDependent(ApplyOverrides(p, kw))

(***************************************************************************)
(* Simulation points: integer coordinates and mean wind speed.             *)
(***************************************************************************)
Point(x, y, z, U) == [x |-> x, y |-> y, z |-> z, U |-> U]

\* the integer value of params["N"], params["M"]
IntOf(r) == r.n

(***************************************************************************)
(* Frequency grid.                                                         *)
(***************************************************************************)
\* mutant: the grid without the half-step shift
FrequencyGridUnshifted(N, dw) == [k \in 1..N |-> RMul(R(k), dw)]

\* calculate_simulation_frequency: np.arange(1, N + 1) * dw - dw / 2
calculate_simulation_frequency(N, dw) ==
    [k \in 1..N |-> RSub(RMul(R(k), dw), RDiv(dw, R(2)))]

(***************************************************************************)
(* One-point power spectrum.  The value is the term of the closed form     *)
(* (u_*^2 / n) * g(f) with u_* = K U_d / ln((Z - z_d) / z_0),              *)
(* f = n Z / U_d, kept as the arguments it is computed from.               *)
(***************************************************************************)
PowerSpectrumTerm(form, freq, Z, p) ==
    [form |-> form, n |-> freq, Z |-> Z, U_d |-> p["U_d"], z_0 |-> p["z_0"],
     z_d |-> p["z_d"], K |-> p["K"]]

\* ln((Z - z_d) / z_0) is NaN below the zero plane and 0 at Z - z_d = z_0
IsFinite(S) ==
    /\ RLess(S.z_d, R(S.Z))
    /\ RSub(R(S.Z), S.z_d) # S.z_0

Components == {"u", "w"}

\* the spectrum object of the NumPy backend rejects an unknown component
SpectrumRejects(component) == component \notin Components

\* self.spectrum.calculate_power_spectrum(freq, positions[:, 2], component),
\* sp the parameters the spectrum object holds
calculate_power_spectrum(freq, Z, component, sp) ==
    PowerSpectrumTerm(component, freq, Z, sp)

\* JaxWindSimulator: calculate_power_spectrum_u if direction == "u" else _w
JaxSpectrumFunc(direction) == IF direction = "u" THEN "u" ELSE "w"

\* JaxWindSimulator.calculate_spectrum_for_position
calculate_spectrum_for_position(freq, Z, spectrum_func, p) ==
    PowerSpectrumTerm(spectrum_func, freq, Z, p)

(***************************************************************************)
(* Coherence: exp(-2 w D / max(2 pi (U_i + U_j), 1e-8)).  The term keeps   *)
(* (w D)^2 and the safe denominator; exp(-0 / d) is 1 for every d.         *)
(***************************************************************************)
Sq(k) == k * k

\* C_x^2 dx^2 + C_y^2 dy^2 + C_z^2 dz^2, the square of distance_term
DistanceSq(pi, pj, C_x, C_y, C_z) ==
    RAdd(RAdd(RMul(RMul(C_x, C_x), R(Sq(pi.x - pj.x))),
              RMul(RMul(C_y, C_y), R(Sq(pi.y - pj.y)))),
         RMul(RMul(C_z, C_z), R(Sq(pi.z - pj.z))))

\* np.maximum(2 pi (U_zi + U_zj), 1e-8): 2 pi U exceeds 1e-8 iff U >= 1
SafeDenominator(U_zi, U_zj) ==
    IF U_zi + U_zj > 0
    THEN [two_pi |-> TRUE, v |-> R(U_zi + U_zj)]
    ELSE [two_pi |-> FALSE, v |-> Norm(1, 100000000)]

CoherenceOne == [wD2 |-> R(0), den |-> [two_pi |-> FALSE, v |-> R(1)]]

\* mutant: no floor under the denominator, 0 / 0 at a zero sum of speeds
CoherenceUnfloored(pi, pj, w, C_x, C_y, C_z) ==
    LET wD2 == RMul(RMul(w, w), DistanceSq(pi, pj, C_x, C_y, C_z))
    IN  IF wD2.n = 0 /\ pi.U + pj.U # 0 THEN CoherenceOne
        ELSE [wD2 |-> wD2, den |-> [two_pi |-> TRUE, v |-> R(pi.U + pj.U)]]

\* mutant: the denominator is taken from the wind speed of the row point
CoherenceOfRowSpeed(pi, pj, w, C_x, C_y, C_z) ==
    LET wD2 == RMul(RMul(w, w), DistanceSq(pi, pj, C_x, C_y, C_z))
    IN  IF wD2.n = 0 THEN CoherenceOne
        ELSE [wD2 |-> wD2, den |-> SafeDenominator(pi.U, pi.U)]

calculate_coherence(pi, pj, w, C_x, C_y, C_z) ==
    LET wD2 == RMul(RMul(w, w), DistanceSq(pi, pj, C_x, C_y, C_z))
    IN  IF wD2.n = 0 THEN CoherenceOne
        ELSE [wD2 |-> wD2, den |-> SafeDenominator(pi.U, pj.U)]

\* calculate_cross_spectrum: sqrt(S_ii * S_jj) * coherence; the product of
\* two floats does not depend on the order of its factors
calculate_cross_spectrum(S_ii, S_jj, coherence) ==
    [S |-> {S_ii, S_jj}, coh |-> coherence]

\* an entry of np.zeros((N, n, n))
ZeroCpsd == [S |-> {}, coh |-> CoherenceOne]

\* build_spectrum_matrix of the NumPy backend: one n x n matrix per frequency
build_spectrum_matrix(positions, frequencies, component, p, sp) ==
    [f \in 1..Len(frequencies) |->
        [i \in 1..Len(positions) |->
            [j \in 1..Len(positions) |->
                calculate_cross_spectrum(
                    calculate_power_spectrum(frequencies[f], positions[i].z,
                                             component, sp),
                    calculate_power_spectrum(frequencies[f], positions[j].z,
                                             component, sp),
                    calculate_coherence(positions[i], positions[j],
                                        frequencies[f],
                                        p["C_x"], p["C_y"], p["C_z"]))]]]

\* build_spectrum_matrix of the JAX backend
jax_build_spectrum_matrix(positions, frequencies, spectrum_func, p) ==
    [f \in 1..Len(frequencies) |->
        [i \in 1..Len(positions) |->
            [j \in 1..Len(positions) |->
                calculate_cross_spectrum(
                    calculate_spectrum_for_position(frequencies[f],
                        positions[i].z, spectrum_func, p),
                    calculate_spectrum_for_position(frequencies[f],
                        positions[j].z, spectrum_func, p),
                    calculate_coherence(positions[i], positions[j],
                                        frequencies[f],
                                        p["C_x"], p["C_y"], p["C_z"]))]]]

(***************************************************************************)
(* Cholesky factor of S + 1e-12 I, lower triangular.  Entry (j, m) of the  *)
(* factor is a function of the lower triangle of the leading j x j block.  *)
(***************************************************************************)
LowerBlock(S, j) == [a \in 1..j |-> [b \in 1..a |-> S[a][b]]]

HZero == [zero |-> TRUE, row |-> 0, col |-> 0, blk |-> << >>]

\* cholesky(S_reg, lower=True)
CholeskyLower(S) ==
    [j \in 1..Len(S) |->
        [m \in 1..Len(S) |->
            IF m <= j
            THEN [zero |-> FALSE, row |-> j, col |-> m, blk |-> LowerBlock(S, j)]
            ELSE HZero]]

\* scipy's cholesky checks its argument: a NaN or Inf entry raises ValueError
CholeskyRaises(S) ==
    \E i \in 1..Len(S) : \E j \in 1..Len(S) : \E s \in S[i][j].S : ~IsFinite(s)

(***************************************************************************)
(* Random phases.  A phase is the k-th draw of the stream named src.       *)
(***************************************************************************)
Phase(src, k) == [src |-> src, k |-> k]

\* np.random.uniform(0, 2*np.pi, (n, N)) on the global generator, row-major
NumpyPhases(gen, n, N) ==
    [m \in 1..n |-> [l \in 1..N |-> Phase(<<gen.seed>>, gen.pos + (m - 1) * N + l)]]

NumpyAfterDraw(gen, n, N) == [gen EXCEPT !.pos = gen.pos + n * N]

\* random.split(key): the two children of a key
SplitCarry(key) == Append(key, 0)
SplitSub(key) == Append(key, 1)

\* random.uniform(subkey, (n, n, N)), row-major
JaxPhases(subkey, n, N) ==
    [j \in 1..n |-> [m \in 1..n |-> [l \in 1..N |->
        Phase(subkey, ((j - 1) * n + (m - 1)) * N + l)]]]

(***************************************************************************)
(* Synthesis: B_j[l] is a sum of terms H[l, j, m] * exp(i * phase); a sum  *)
(* is the sequence of its non-zero terms, in the order they are added.     *)
(***************************************************************************)
Term(H, phase) == [H |-> H, phase |-> phase]

\* the 0.0 that np.where and the mask product put in a masked position
ZeroTerm == Term(HZero, Phase(<< >>, 0))

NonZero(t) == ~t.H.zero

SumTerms(terms) == SelectSeq(terms, NonZero)

\* wind_samples[j] = sqrt(2 dw) * Re(ifft(B[j]) * M * exp_factor): a row is
\* a function of its coefficients B[j] (of length M) and of dw
SampleRow(B_j, dw) == [B |-> B_j, dw |-> dw]

\* a row of np.zeros((n, M))
ZeroRow(M) == [B |-> [l \in 1..M |-> << >>], dw |-> R(0)]

\* mutant: the mask m < j, which drops the diagonal term
NumpyBValuesBelowDiagonal(H_matrices, phi, j, n, N) ==
    [l \in 1..N |->
        SumTerms([m \in 1..n |->
            IF m < j THEN Term(H_matrices[l][j][m], phi[m][l]) ELSE ZeroTerm])]

\* the loop body of the NumPy synthesis: mask m <= j, phase phi[m, l]
NumpyBValues(H_matrices, phi, j, n, N) ==
    [l \in 1..N |->
        SumTerms([m \in 1..n |->
            IF m <= j THEN Term(H_matrices[l][j][m], phi[m][l]) ELSE ZeroTerm])]

\* B[j, :N] = B_values, the other M - N entries stay 0
PadB(B_values, N, M) == [l \in 1..M |-> IF l <= N THEN B_values[l] ELSE << >>]

NumpySamples(H_matrices, phi, n, N, M, dw) ==
    [j \in 1..n |-> SampleRow(PadB(NumpyBValues(H_matrices, phi, j, n, N), N, M), dw)]

Outcome(err, samples, frequencies, gen) ==
    [err |-> err, samples |-> samples, frequencies |-> frequencies, gen |-> gen]

\* mutant: the phases are drawn as an (N, n) array and read as phi[l, m]
process_spectrum_phases_by_frequency(S_matrices, n, N, M, dw, gen) ==
    IF \E i \in 1..N : CholeskyRaises(S_matrices[i])
    THEN Outcome("cholesky", << >>, << >>, gen)
    ELSE LET H_matrices == [i \in 1..N |-> CholeskyLower(S_matrices[i])]
             phi == [m \in 1..n |-> [l \in 1..N |->
                        Phase(<<gen.seed>>, gen.pos + (l - 1) * n + m)]]
             drawn == NumpyAfterDraw(gen, n, N)
         IN  IF M < N
             THEN Outcome("shape", << >>, << >>, drawn)
             ELSE Outcome("none", NumpySamples(H_matrices, phi, n, N, M, dw),
                          << >>, drawn)

\* NumpyWindSimulator._process_spectrum_to_samples; gen is the state of the
\* global generator on entry
process_spectrum_to_samples(S_matrices, n, N, M, dw, gen) ==
    IF \E i \in 1..N : CholeskyRaises(S_matrices[i])
    THEN Outcome("cholesky", << >>, << >>, gen)
    ELSE LET H_matrices == [i \in 1..N |-> CholeskyLower(S_matrices[i])]
             phi == NumpyPhases(gen, n, N)
             drawn == NumpyAfterDraw(gen, n, N)
         IN  IF M < N
             THEN Outcome("shape", << >>, << >>, drawn)
             ELSE Outcome("none", NumpySamples(H_matrices, phi, n, N, M, dw),
                          << >>, drawn)

\* NumpyWindSimulator._simulate_fluctuating_wind
simulate_fluctuating_wind(positions, component, p, sp, gen) ==
    LET n == Len(positions)
        N == IntOf(p["N"])
        M == IntOf(p["M"])
        dw == p["dw"]
        frequencies == calculate_simulation_frequency(N, dw)
    IN  IF SpectrumRejects(component)
        THEN Outcome("component", << >>, << >>, gen)
        ELSE LET S_matrices ==
                     build_spectrum_matrix(positions, frequencies, component,
                                           p, sp)
             IN  IF \E i \in 1..N : CholeskyRaises(S_matrices[i])
                 THEN Outcome("cholesky", << >>, << >>, gen)
                 ELSE LET H_matrices ==
                              [i \in 1..N |-> CholeskyLower(S_matrices[i])]
                          phi == NumpyPhases(gen, n, N)
                          drawn == NumpyAfterDraw(gen, n, N)
                      IN  IF M < N
                          THEN Outcome("shape", << >>, << >>, drawn)
                          ELSE Outcome("none",
                                   NumpySamples(H_matrices, phi, n, N, M, dw),
                                   frequencies, drawn)

\* compute_B_for_point of the JAX backend: mask m <= j, phase phi[j, m, l]
compute_B_for_point(j, N, M, n, H_matrices, phi) ==
    PadB([l \in 1..N |->
            SumTerms([m \in 1..n |->
                IF m <= j THEN Term(H_matrices[l][j][m], phi[j][m][l])
                ELSE ZeroTerm])],
         N, M)

\* JaxWindSimulator._simulate_fluctuating_wind; the factorization of a
\* non-finite matrix returns NaN and does not raise
jax_simulate_fluctuating_wind(positions, key, direction, p) ==
    LET n == Len(positions)
        N == IntOf(p["N"])
        M == IntOf(p["M"])
        dw == p["dw"]
        frequencies == calculate_simulation_frequency(N, dw)
        spectrum_func == JaxSpectrumFunc(direction)
        S_matrices ==
            jax_build_spectrum_matrix(positions, frequencies, spectrum_func, p)
        H_matrices == [i \in 1..N |-> CholeskyLower(S_matrices[i])]
        subkey == SplitSub(key)
        phi == JaxPhases(subkey, n, N)
        nogen == [seed |-> 0, pos |-> 0]
    IN  IF M < N
        THEN Outcome("shape", << >>, << >>, nogen)
        ELSE Outcome("none",
                 [j \in 1..n |->
                     SampleRow(compute_B_for_point(j, N, M, n, H_matrices, phi),
                               dw)],
                 frequencies, nogen)

(***************************************************************************)
(* Batch arithmetic of the base class: contiguous batches of batch_size,   *)
(* the last one shorter.                                                   *)
(***************************************************************************)
get_batch_info(total, batch_size) == (total + batch_size - 1) \div batch_size

get_batch_range(batch_idx, batch_size, total) ==
    <<batch_idx * batch_size, Min((batch_idx + 1) * batch_size, total)>>

\* positions[start:end], wind_samples[start:end] (0-based, end exclusive)
Slice(seq, start, end) == SubSeq(seq, start + 1, end)

\* seq[start:end] = rows
WriteSlice(seq, start, end, rows) ==
    [k \in 1..Len(seq) |->
        IF start < k /\ k <= end THEN rows[k - start] ELSE seq[k]]

(***************************************************************************)
(* State.                                                                  *)
(***************************************************************************)
VARIABLES
    sims,    \* the simulator objects: backend, random state, parameters;
             \* seed0 is the key of the constructor, calls the number of
             \* simulate_wind invocations, kw_derived whether the last
             \* update_parameters named dw or z_d, kw_ignored whether
             \* all, some or none of its names were not keys of params
    rng,     \* the process-global NumPy generator: seed and draws made
    frame    \* per simulator, the simulate_wind call in progress or last made;
             \* written and slices_written count the stores into each row
             \* of wind_samples and each slice of S_matrices_full

vars == <<sims, rng, frame>>

Sims == {"a", "b"}
Backends == {"numpy", "jax"}

NoParams == [k \in {} |-> R(0)]

NoSim ==
    [backend |-> "none", seed |-> 0, key |-> << >>, params |-> NoParams,
     spectrum |-> NoParams, seed0 |-> 0, calls |-> 0, kw_derived |-> FALSE,
     kw_ignored |-> "no"]

NoFrame ==
    [pc |-> "none", positions |-> << >>, component |-> "", batched |-> FALSE,
     point_batch_size |-> 0, freq_batch_size |-> 0, params |-> NoParams,
     call_no |-> 0, gen0 |-> [seed |-> 0, pos |-> 0],
     point_batch_idx |-> 0, freq_batch_idx |-> 0,
     batch_positions |-> << >>, S_matrices_full |-> << >>,
     slices_written |-> << >>,
     wind_samples |-> << >>, written |-> << >>, frequencies |-> << >>,
     err |-> "none"]

Running(f) == f.pc \in {"points", "freqs", "process"}

\* the interpreter runs one call at a time
Idle == \A i \in Sims : ~Running(frame[i])

Init ==
    /\ sims = [i \in Sims |-> NoSim]
    /\ rng = [seed |-> -1, pos |-> 0]
    /\ frame = [i \in Sims |-> NoFrame]

(***************************************************************************)
(* Construction and parameter update.                                      *)
(***************************************************************************)
\* NumpyWindSimulator(key) / JaxWindSimulator(key)
Construct(i, backend, key) ==
    /\ Idle
    /\ sims[i].backend = "none"
    /\ sims' = [sims EXCEPT ![i] =
           [backend |-> backend,
            seed |-> IF backend = "numpy" THEN key ELSE 0,
            key |-> IF backend = "jax" THEN <<key>> ELSE << >>,
            params |-> DefaultParameters(backend),
            spectrum |-> IF backend = "numpy" THEN DefaultParameters(backend)
                         ELSE NoParams,
            seed0 |-> key, calls |-> 0, kw_derived |-> FALSE,
            kw_ignored |-> "no"]]
    /\ rng' = IF backend = "numpy" THEN [seed |-> key, pos |-> 0] ELSE rng
    /\ UNCHANGED frame

\* update_parameters(**kw) of either backend
UpdateParameters(i, kw) ==
    /\ Idle
    /\ sims[i].backend # "none"
    /\ LET q == UpdatedParams(sims[i].params, kw)
       IN  sims' = [sims EXCEPT ![i].params = q,
                                ![i].spectrum =
                                    IF sims[i].backend = "numpy" THEN q ELSE @,
                                ![i].kw_derived =
                                    DOMAIN kw \cap {"dw", "z_d"} # {},
                                ![i].kw_ignored =
                                    Ignored(sims[i].params, kw)]
    /\ UNCHANGED <<rng, frame>>

\* a call on simulator i of the given backend can start
CanCall(i, backend) ==
    /\ Idle
    /\ sims[i].backend = backend
    /\ sims[i].calls < MaxCalls

(***************************************************************************)
(* simulate_wind of the NumPy backend.                                     *)
(***************************************************************************)
\* mutant: the generator keeps the state the previous draws left it in
KeepGenerator(gen, seed) == gen

\* np.random.seed(self.seed)
Reseed(gen, seed) == [seed |-> seed, pos |-> 0]

\* mutant: the seed counter is left as it is
SeedKept(seed) == seed

\* self.seed += 1
SeedAfterCall(seed) == seed + 1

\* mutant: the call also stores M = 2N in the parameter mapping
CalledAndNormalised(sim) ==
    [sim EXCEPT !.seed = SeedAfterCall(sim.seed),
                !.calls = sim.calls + 1,
                !.params = [@ EXCEPT !["M"] = RMul(R(2), sim.params["N"])]]

\* the instance after the first two statements of simulate_wind, the only
\* ones that assign to an attribute of self
Called(sim) ==
    [sim EXCEPT !.seed = SeedAfterCall(sim.seed), !.calls = sim.calls + 1]

\* the entries of written counted once more for the range [start, end)
CountWrites(written, start, end) ==
    [k \in 1..Len(written) |->
        IF start < k /\ k <= end THEN written[k] + 1 ELSE written[k]]

\* the frame of a call that ends with the outcome out
EndFrame(f, out) ==
    [f EXCEPT !.pc = IF out.err = "none" THEN "done" ELSE "raised",
              !.err = out.err,
              !.wind_samples = out.samples,
              !.frequencies = out.frequencies,
              !.written = [k \in 1..Len(out.samples) |-> 1]]

\* simulate_wind up to the dispatch; the direct path runs to its end, the
\* batched path stops in front of its first point batch
SimulateWind(i, positions, component, use_batching, point_batch_size, freq_batch_size) ==
    /\ CanCall(i, "numpy")
    /\ LET sim == sims[i]
           p == sim.params
           gen == Reseed(rng, sim.seed)
           n == Len(positions)
           N == IntOf(p["N"])
           M == IntOf(p["M"])
           f0 == [NoFrame EXCEPT !.positions = positions,
                                 !.component = component,
                                 !.batched = use_batching,
                                 !.point_batch_size = point_batch_size,
                                 !.freq_batch_size = freq_batch_size,
                                 !.params = p,
                                 !.call_no = sim.calls + 1,
                                 !.gen0 = gen]
       IN  /\ sims' = [sims EXCEPT ![i] = Called(sim)]
           /\ IF use_batching
              THEN /\ frame' = [frame EXCEPT ![i] =
                        [f0 EXCEPT !.pc = "points",
                                   !.frequencies =
                                       calculate_simulation_frequency(N, p["dw"]),
                                   !.wind_samples = [k \in 1..n |-> ZeroRow(M)],
                                   !.written = [k \in 1..n |-> 0]]]
                   /\ rng' = gen
              ELSE LET out == simulate_fluctuating_wind(positions, component, p,
                                                        sim.spectrum, gen)
                   IN  /\ frame' = [frame EXCEPT ![i] = EndFrame(f0, out)]
                       /\ rng' = out.gen

\* mutant: every batch is stored from row 0 on
StoreBatchFromRowZero(f, n, batch_samples) ==
    LET r == get_batch_range(f.point_batch_idx, f.point_batch_size, n)
        last == f.point_batch_idx + 1 = get_batch_info(n, f.point_batch_size)
    IN  [f EXCEPT !.wind_samples = WriteSlice(@, 0, r[2] - r[1], batch_samples),
                  !.written = CountWrites(@, 0, r[2] - r[1]),
                  !.point_batch_idx = @ + 1,
                  !.pc = IF last THEN "done" ELSE "points"]

\* wind_samples[start_point:end_point] = batch_samples and the step of the
\* point-batch loop; the call returns after the last batch
StoreBatch(f, n, batch_samples) ==
    LET r == get_batch_range(f.point_batch_idx, f.point_batch_size, n)
        last == f.point_batch_idx + 1 = get_batch_info(n, f.point_batch_size)
    IN  [f EXCEPT !.wind_samples = WriteSlice(@, r[1], r[2], batch_samples),
                  !.written = CountWrites(@, r[1], r[2]),
                  !.point_batch_idx = @ + 1,
                  !.pc = IF last THEN "done" ELSE "points"]

\* mutant: the failed batch is skipped and the loop goes on
RaiseFrameAndGoOn(f, err) ==
    [f EXCEPT !.err = err,
              !.point_batch_idx = @ + 1,
              !.pc = IF f.point_batch_idx + 1 =
                          get_batch_info(Len(f.positions), f.point_batch_size)
                     THEN "done" ELSE "points"]

\* an exception leaves the loops: nothing is caught in the pipeline
RaiseFrame(f, err) == [f EXCEPT !.pc = "raised", !.err = err]

\* batch_positions = positions[start_point:end_point]
BatchPositions(positions, start, end) == Slice(positions, start, end)

\* one iteration of the point-batch loop of _simulate_wind_with_batching, up
\* to the frequency loop of _simulate_point_batch when there is one
PointBatch(i) ==
    /\ frame[i].pc = "points"
    /\ LET f == frame[i]
           sim == sims[i]
           p == sim.params
           n == Len(f.positions)
           N == IntOf(p["N"])
           r == get_batch_range(f.point_batch_idx, f.point_batch_size, n)
           batch_positions == BatchPositions(f.positions, r[1], r[2])
           nb == Len(batch_positions)
           g == [f EXCEPT !.batch_positions = batch_positions]
       IN  IF f.freq_batch_size >= N
           THEN LET out == simulate_fluctuating_wind(batch_positions,
                               f.component, p, sim.spectrum, rng)
                IN  /\ rng' = out.gen
                    /\ frame' = [frame EXCEPT ![i] =
                           IF out.err = "none" THEN StoreBatch(g, n, out.samples)
                           ELSE RaiseFrame(g, out.err)]
           ELSE /\ rng' = rng
                /\ frame' = [frame EXCEPT ![i] =
                       [g EXCEPT !.pc = "freqs",
                                 !.freq_batch_idx = 0,
                                 !.S_matrices_full =
                                     [l \in 1..N |-> [a \in 1..nb |->
                                         [b \in 1..nb |-> ZeroCpsd]]],
                                 !.slices_written = [l \in 1..N |-> 0]]]
    /\ UNCHANGED sims

\* mutant: the factorization starts after the first sub-batch
StoreFreqBatchAndProcess(f, N, S_batch) ==
    LET r == get_batch_range(f.freq_batch_idx, f.freq_batch_size, N)
    IN  [f EXCEPT !.S_matrices_full = WriteSlice(@, r[1], r[2], S_batch),
                  !.slices_written = CountWrites(@, r[1], r[2]),
                  !.freq_batch_idx = @ + 1,
                  !.pc = "process"]

\* S_matrices_full[start_freq:end_freq] = S_batch and the step of the
\* frequency loop; _process_spectrum_to_samples follows the last sub-batch
StoreFreqBatch(f, N, S_batch) ==
    LET r == get_batch_range(f.freq_batch_idx, f.freq_batch_size, N)
        last == f.freq_batch_idx + 1 = get_batch_info(N, f.freq_batch_size)
    IN  [f EXCEPT !.S_matrices_full = WriteSlice(@, r[1], r[2], S_batch),
                  !.slices_written = CountWrites(@, r[1], r[2]),
                  !.freq_batch_idx = @ + 1,
                  !.pc = IF last THEN "process" ELSE "freqs"]

\* one iteration of the frequency loop of _simulate_point_batch
FreqBatch(i) ==
    /\ frame[i].pc = "freqs"
    /\ LET f == frame[i]
           sim == sims[i]
           p == sim.params
           N == IntOf(p["N"])
           r == get_batch_range(f.freq_batch_idx, f.freq_batch_size, N)
           batch_frequencies == Slice(f.frequencies, r[1], r[2])
       IN  IF SpectrumRejects(f.component)
           THEN frame' = [frame EXCEPT ![i] = RaiseFrame(f, "component")]
           ELSE frame' = [frame EXCEPT ![i] =
                    StoreFreqBatch(f, N,
                        build_spectrum_matrix(f.batch_positions,
                            batch_frequencies, f.component, p, sim.spectrum))]
    /\ UNCHANGED <<sims, rng>>

\* _process_spectrum_to_samples on the assembled matrices, and the store of
\* its rows by the point-batch loop
ProcessSpectrum(i) ==
    /\ frame[i].pc = "process"
    /\ LET f == frame[i]
           p == sims[i].params
           out == process_spectrum_to_samples(f.S_matrices_full,
                      Len(f.batch_positions), IntOf(p["N"]), IntOf(p["M"]),
                      p["dw"], rng)
       IN  /\ rng' = out.gen
           /\ frame' = [frame EXCEPT ![i] =
                  IF out.err = "none"
                  THEN StoreBatch(f, Len(f.positions), out.samples)
                  ELSE RaiseFrame(f, out.err)]
    /\ UNCHANGED sims

(***************************************************************************)
(* simulate_wind of the JAX backend.                                       *)
(***************************************************************************)
JaxSimulateWind(i, positions, direction) ==
    /\ CanCall(i, "jax")
    /\ LET sim == sims[i]
           subkey == SplitSub(sim.key)
           out == jax_simulate_fluctuating_wind(positions, subkey, direction,
                                                sim.params)
           f0 == [NoFrame EXCEPT !.positions = positions,
                                 !.component = direction,
                                 !.params = sim.params,
                                 !.call_no = sim.calls + 1]
       IN  /\ sims' = [sims EXCEPT ![i].key = SplitCarry(sim.key),
                                   ![i].calls = sim.calls + 1]
           /\ frame' = [frame EXCEPT ![i] = EndFrame(f0, out)]
    /\ UNCHANGED rng

(***************************************************************************)
(* The caller drops the returned arrays (or the exception): the locals of  *)
(* the call are gone.                                                      *)
(***************************************************************************)
Return(i) ==
    /\ frame[i].pc \in {"done", "raised"}
    /\ frame' = [frame EXCEPT ![i] = NoFrame]
    /\ UNCHANGED <<sims, rng>>

(***************************************************************************)
(* Inputs.                                                                 *)
(***************************************************************************)
Seeds == {0, 1}

\* two points at the default height, one of them displaced, and one point
\* below the zero plane z_d, where the spectrum is not finite
PointPool == {Point(0, 0, 10, 25), Point(5, 0, 10, 30), Point(0, 0, 5, 25)}

PointSets == UNION {[1..k -> PointPool] : k \in 1..MaxPoints}

\* the two component tags and an invalid one
Tags == {"u", "w", "x"}

\* overrides of N and M alone
SizeOverrides ==
    {[k \in {"N"} |-> R(v)] : v \in {1, DefaultN}}
        \cup {[k \in {"M"} |-> R(v)] : v \in {1, 2 * DefaultN}}

\* overrides of at most MaxOverrides names, one of them not a parameter
KwValues ==
    [N |-> {R(1), R(DefaultN)}, M |-> {R(1)}, w_up |-> {R(5), R(6)},
     K |-> {Norm(2, 5), Norm(1, 2)}, H_bar |-> {R(12)}, z_0 |-> {Norm(1, 10)},
     dw |-> {R(7)}, z_d |-> {R(7)}, bogus |-> {R(7)}]

Overrides ==
    UNION {{kw \in [D -> UNION {KwValues[k] : k \in D}] :
                \A k \in D : kw[k] \in KwValues[k]} :
           D \in {D \in SUBSET DOMAIN KwValues : Cardinality(D) <= MaxOverrides}}

\* the outcomes of _should_use_batching: no batching, or batching with a
\* point batch size and a frequency batch size
BatchChoices ==
    {<<FALSE, 1, 1>>}
        \cup {<<TRUE, pbs, fbs>> : pbs \in 1..MaxPoints, fbs \in 1..DefaultN}

(***************************************************************************)
(* Specification: one simulator of either backend; the caller drops the    *)
(* result of a call before the next operation.                             *)
(***************************************************************************)
Quiet == \A i \in Sims : frame[i].pc = "none"

DoConstruct == \E b \in Backends, k \in Seeds : Construct("a", b, k)

DoUpdateParameters ==
    /\ Quiet
    /\ \E kw \in SizeOverrides : UpdateParameters("a", kw)

DoSimulateWind ==
    /\ Quiet
    /\ CanCall("a", "numpy")
    /\ \E ps \in PointSets, c \in Tags, bc \in BatchChoices :
           SimulateWind("a", ps, c, bc[1], bc[2], bc[3])

DoPointBatch == PointBatch("a")

DoFreqBatch == FreqBatch("a")

DoProcessSpectrum == ProcessSpectrum("a")

DoJaxSimulateWind ==
    /\ Quiet
    /\ CanCall("a", "jax")
    /\ \E ps \in PointSets, c \in Tags : JaxSimulateWind("a", ps, c)

DoReturn == Return("a")

Next ==
    \/ DoConstruct
    \/ DoUpdateParameters
    \/ DoSimulateWind
    \/ DoPointBatch
    \/ DoFreqBatch
    \/ DoProcessSpectrum
    \/ DoJaxSimulateWind
    \/ DoReturn

Spec == Init /\ [][Next]_vars

(***************************************************************************)
(* Specification of the parameter set alone: construction and updates      *)
(* with any overrides.                                                     *)
(***************************************************************************)
AnyUpdateParameters == \E kw \in Overrides : UpdateParameters("a", kw)

NextParams ==
    \/ DoConstruct
    \/ AnyUpdateParameters

SpecParams == Init /\ [][NextParams]_vars

(***************************************************************************)
(* Specification of two simulators whose caller keeps the result of the    *)
(* last call on each.                                                      *)
(***************************************************************************)
PairPointSets == {<<Point(0, 0, 10, 25), Point(5, 0, 10, 30)>>}

PairBatchChoices == {<<FALSE, 1, 1>>, <<TRUE, 1, 1>>}

PairConstruct == \E i \in Sims, b \in Backends, k \in Seeds : Construct(i, b, k)

PairUpdateParameters ==
    /\ Idle
    /\ \E i \in Sims : UpdateParameters(i, [k \in {"N"} |-> R(1)])

PairSimulateWind ==
    /\ Idle
    /\ \E i \in Sims, ps \in PairPointSets, bc \in PairBatchChoices :
           SimulateWind(i, ps, "u", bc[1], bc[2], bc[3])

PairSteps == \E i \in Sims : PointBatch(i) \/ FreqBatch(i) \/ ProcessSpectrum(i)

PairJaxSimulateWind ==
    /\ Idle
    /\ \E i \in Sims, ps \in PairPointSets : JaxSimulateWind(i, ps, "u")

NextPair ==
    \/ PairConstruct
    \/ PairUpdateParameters
    \/ PairSimulateWind
    \/ PairSteps
    \/ PairJaxSimulateWind

SpecPair == Init /\ [][NextPair]_vars

(***************************************************************************)
(* Specification of the coherence at the floor of its denominator: one     *)
(* simulator, points at one place with positive, zero and negative wind    *)
(* speeds and a point at another place.                                    *)
(***************************************************************************)
FloorPool ==
    {Point(0, 0, 10, 25), Point(0, 0, 10, 0), Point(0, 0, 10, -25),
     Point(5, 0, 10, 0)}

FloorPointSets == UNION {[1..k -> FloorPool] : k \in 1..MaxPoints}

\* no batching, or one point batch with frequency sub-batches of one
FloorBatchChoices == {<<FALSE, 1, 1>>, <<TRUE, MaxPoints, 1>>}

FloorSimulateWind ==
    /\ Quiet
    /\ CanCall("a", "numpy")
    /\ \E ps \in FloorPointSets, bc \in FloorBatchChoices :
           SimulateWind("a", ps, "u", bc[1], bc[2], bc[3])

FloorJaxSimulateWind ==
    /\ Quiet
    /\ CanCall("a", "jax")
    /\ \E ps \in FloorPointSets : JaxSimulateWind("a", ps, "u")

NextFloor ==
    \/ DoConstruct
    \/ FloorSimulateWind
    \/ DoPointBatch
    \/ DoFreqBatch
    \/ DoProcessSpectrum
    \/ FloorJaxSimulateWind
    \/ DoReturn

SpecFloor == Init /\ [][NextFloor]_vars

(***************************************************************************)
(* Specification of the frequency sub-batches: one NumPy simulator with N  *)
(* or N + 1 frequencies, so that a sub-batch size need not divide N.       *)
(***************************************************************************)
\* one point batch or batches of one point, any frequency batch size
FreqBatchChoices ==
    {<<TRUE, pbs, fbs>> : pbs \in {1, MaxPoints}, fbs \in 1..(DefaultN + 1)}

FreqConstruct == \E k \in Seeds : Construct("a", "numpy", k)

FreqUpdateParameters ==
    /\ Quiet
    /\ UpdateParameters("a", [k \in {"N"} |-> R(DefaultN + 1)])

FreqSimulateWind ==
    /\ Quiet
    /\ CanCall("a", "numpy")
    /\ \E ps \in PointSets, c \in Tags, bc \in FreqBatchChoices :
           SimulateWind("a", ps, c, bc[1], bc[2], bc[3])

NextFreq ==
    \/ FreqConstruct
    \/ FreqUpdateParameters
    \/ FreqSimulateWind
    \/ DoPointBatch
    \/ DoFreqBatch
    \/ DoProcessSpectrum
    \/ DoReturn

SpecFreq == Init /\ [][NextFreq]_vars

(***************************************************************************)
(* Properties.                                                             *)
(***************************************************************************)
Built(i) == sims[i].backend # "none"

Ended(f) == f.pc \in {"done", "raised"}

\* what the unbatched path returns for the inputs and the generator state
\* the call of frame f started from
Unbatched(i, f) ==
    simulate_fluctuating_wind(f.positions, f.component, f.params,
                              sims[i].spectrum, f.gen0)

\* C1: a batched simulate_wind call of the NumPy backend returns, in every
\* output row, the value the unbatched path returns for the same seed
\* state, parameters and inputs.
BatchingEquivalence ==
    \A i \in Sims :
        (frame[i].batched /\ frame[i].pc = "done") =>
            /\ Unbatched(i, frame[i]).err = "none"
            /\ frame[i].wind_samples = Unbatched(i, frame[i]).samples

\* C2: the cross-spectral matrix of every point batch is built over the
\* positions and wind speeds of all n points of the call.
BatchUsesFullPointSet ==
    \A i \in Sims :
        (frame[i].batched /\ frame[i].batch_positions # << >>) =>
            frame[i].batch_positions = frame[i].positions

\* the rows the point batches processed so far cover
Covered(f) ==
    Min(f.point_batch_idx * f.point_batch_size, Len(f.positions))

\* C3: in the batched path the batches are stored in ascending order into
\* contiguous, disjoint row ranges: after b batches exactly the rows below
\* min(b * point_batch_size, n) are written, each once, the others are still
\* zero, and at the return every row is written.
RowsWrittenOnce ==
    \A i \in Sims :
        LET f == frame[i]
            n == Len(f.positions)
        IN  (f.batched /\ f.pc # "none") =>
                /\ Len(f.wind_samples) = n
                /\ \A k \in 1..n :
                       IF k <= Covered(f)
                       THEN /\ f.written[k] = 1
                            /\ f.wind_samples[k] # ZeroRow(IntOf(f.params["M"]))
                       ELSE /\ f.written[k] = 0
                            /\ f.wind_samples[k] = ZeroRow(IntOf(f.params["M"]))
                /\ (f.pc = "done" => Covered(f) = n)

\* C3 witness: a batched call returned after two or more point batches
RowsWrittenOnceWitness ==
    \E i \in Sims :
        /\ frame[i].batched
        /\ frame[i].pc = "done"
        /\ frame[i].point_batch_idx >= 2

\* C4: after construction and after every update_parameters call, whatever
\* names it overrides, dw = w_up / N and z_d = H_bar - z_0 / K.
DerivedParameters ==
    \A i \in Sims :
        Built(i) =>
            /\ sims[i].params["dw"] =
                   RDiv(sims[i].params["w_up"], sims[i].params["N"])
            /\ sims[i].params["z_d"] =
                   RSub(sims[i].params["H_bar"],
                        RDiv(sims[i].params["z_0"], sims[i].params["K"]))

\* C4 witness: the last update named dw or z_d, and N and K differ from
\* their defaults
DerivedParametersWitness ==
    \E i \in Sims :
        /\ Built(i)
        /\ sims[i].kw_derived
        /\ sims[i].params["N"] # R(DefaultN)
        /\ sims[i].params["K"] # Norm(2, 5)
        /\ sims[i].params["dw"] # R(7)
        /\ sims[i].params["z_d"] # R(7)

\* C5: M = 2N holds for the parameters of every simulator, after
\* construction and after every update_parameters call.
MIsTwiceN ==
    \A i \in Sims :
        Built(i) => sims[i].params["M"] = RMul(R(2), sims[i].params["N"])

\* C6: a simulate_wind call that returns gives n rows of M = 2N columns and
\* N frequencies.
OutputShape ==
    \A i \in Sims :
        LET f == frame[i]
            N == IntOf(f.params["N"])
        IN  f.pc = "done" =>
                /\ Len(f.wind_samples) = Len(f.positions)
                /\ \A j \in 1..Len(f.wind_samples) :
                       Len(f.wind_samples[j].B) = 2 * N
                /\ Len(f.frequencies) = N

\* the key of a JAX simulator built with seed s after k calls
KeyAfter(s, k) == [x \in 1..(k + 1) |-> IF x = 1 THEN s ELSE 0]

\* C7: the random state is advanced once per simulate_wind invocation: after
\* k invocations the NumPy seed counter is s + k and the JAX key is the k-th
\* carry of PRNGKey(s), on every path and whether the call returned or
\* raised; the k-th call starts from the seed s + k - 1.
RandomStateOncePerCall ==
    \A i \in Sims :
        /\ sims[i].backend = "numpy" => sims[i].seed = sims[i].seed0 + sims[i].calls
        /\ sims[i].backend = "jax" =>
               sims[i].key = KeyAfter(sims[i].seed0, sims[i].calls)
        /\ (sims[i].backend = "numpy" /\ frame[i].pc # "none") =>
               /\ frame[i].call_no = sims[i].calls
               /\ frame[i].gen0.seed = sims[i].seed0 + frame[i].call_no - 1

\* C7 witness: the second call of a NumPy simulator raised in the batched
\* path after a first point batch was stored
RandomStateOncePerCallWitness ==
    \E i \in Sims :
        /\ sims[i].backend = "numpy"
        /\ sims[i].calls = 2
        /\ frame[i].batched
        /\ frame[i].pc = "raised"
        /\ frame[i].point_batch_idx >= 1

SameCall(f, g) ==
    /\ f.call_no = g.call_no
    /\ f.positions = g.positions
    /\ f.component = g.component
    /\ f.batched = g.batched
    /\ f.point_batch_size = g.point_batch_size
    /\ f.freq_batch_size = g.freq_batch_size
    /\ f.params = g.params

\* C8: two simulators of one backend built with the same seed give, on
\* their k-th simulate_wind call with the same parameters, inputs and
\* batching arguments, the same phase stream and the same result.
Reproducible ==
    \A i \in Sims : \A j \in Sims \ {i} :
        ( /\ Built(i)
          /\ sims[i].backend = sims[j].backend
          /\ sims[i].seed0 = sims[j].seed0
          /\ Ended(frame[i])
          /\ Ended(frame[j])
          /\ SameCall(frame[i], frame[j]) ) =>
            /\ frame[i].gen0 = frame[j].gen0
            /\ frame[i].err = frame[j].err
            /\ frame[i].wind_samples = frame[j].wind_samples
            /\ frame[i].frequencies = frame[j].frequencies

\* C8 witness: two NumPy simulators with one seed both returned from their
\* second call, a batched one, with the same inputs
ReproducibleWitness ==
    /\ sims["a"].backend = "numpy"
    /\ sims["b"].backend = "numpy"
    /\ sims["a"].seed0 = sims["b"].seed0
    /\ frame["a"].pc = "done"
    /\ frame["b"].pc = "done"
    /\ frame["a"].call_no = 2
    /\ frame["a"].batched
    /\ SameCall(frame["a"], frame["b"])

\* C9: in a returned unbatched call of either backend the phase of the term
\* (m, l) of B_j[l] is the same for every output point j.
PhaseSharedAcrossPoints ==
    \A i \in Sims :
        LET f == frame[i]
        IN  (f.pc = "done" /\ ~f.batched) =>
                \A j1 \in 1..Len(f.wind_samples) :
                \A j2 \in 1..Len(f.wind_samples) :
                \A l \in 1..IntOf(f.params["N"]) :
                \A m \in 1..Min(j1, j2) :
                    f.wind_samples[j1].B[l][m].phase =
                        f.wind_samples[j2].B[l][m].phase

\* C10: a simulate_wind call with a component tag other than "u" and "w"
\* does not return samples.
InvalidComponentRaises ==
    \A i \in Sims :
        frame[i].pc = "done" => frame[i].component \in Components

\* the one-point spectrum of every point of the call is finite
AllFinite(f) ==
    \A k \in 1..Len(f.positions) : \A l \in 1..Len(f.frequencies) :
        IsFinite(calculate_power_spectrum(f.frequencies[l], f.positions[k].z,
                                          f.component, f.params))

\* C11: a Cholesky failure of the NumPy backend ends the simulate_wind call:
\* the call is in its raised state, no later step of it runs (no retry, no
\* further frequency slice or point batch), and a call returns samples only
\* when no slice of any of its batches failed.
CholeskyFailureTerminal ==
    [][\A i \in Sims :
          /\ frame[i].err = "cholesky" =>
                 /\ frame[i].pc = "raised"
                 /\ \/ frame'[i] = frame[i]
                    \/ frame'[i].call_no # frame[i].call_no
          /\ (sims[i].backend = "numpy" /\ frame[i].pc = "done") =>
                 /\ frame[i].err = "none"
                 /\ AllFinite(frame[i])]_vars

\* C11 witness: the factorization of the first point batch failed after the
\* frequency sub-batches were assembled, with a point batch still to come
CholeskyFailureTerminalWitness ==
    \E i \in Sims :
        /\ frame[i].err = "cholesky"
        /\ frame[i].batched
        /\ frame[i].S_matrices_full # << >>
        /\ frame[i].point_batch_idx + 1 <
               get_batch_info(Len(frame[i].positions), frame[i].point_batch_size)

\* (k + 0.5) * dw
MidPoint(k, dw) == RMul(RAdd(R(k), Norm(1, 2)), dw)

\* C12: the frequency grid a simulate_wind call of either backend works with
\* has N values, the k-th (from 0) being (k + 0.5) * dw; for dw > 0 it is
\* strictly increasing and positive, from 0.5 * dw to (N - 0.5) * dw.
FrequencyGrid ==
    \A i \in Sims :
        LET f == frame[i]
            N == IntOf(f.params["N"])
            dw == f.params["dw"]
            freq == f.frequencies
        IN  (f.pc = "done" \/ Running(f)) =>
                /\ Len(freq) = N
                /\ \A k \in 0..(N - 1) : freq[k + 1] = MidPoint(k, dw)
                /\ RLess(R(0), dw) =>
                       /\ \A k \in 1..N : RLess(R(0), freq[k])
                       /\ \A k \in 1..(N - 1) : RLess(freq[k], freq[k + 1])
                       /\ freq[1] = RDiv(dw, R(2))
                       /\ freq[N] = RSub(RMul(R(N), dw), RDiv(dw, R(2)))

\* C12 witness: a NumPy and a JAX simulator returned the same grid of two
\* or more frequencies
FrequencyGridWitness ==
    \E i \in Sims : \E j \in Sims :
        /\ sims[i].backend = "numpy"
        /\ sims[j].backend = "jax"
        /\ frame[i].pc = "done"
        /\ frame[j].pc = "done"
        /\ Len(frame[i].frequencies) >= 2
        /\ frame[i].frequencies = frame[j].frequencies

\* C13: update_parameters ignores the names that are not keys of params: the
\* key set of params stays the one of construction through every update,
\* and an update naming only such names leaves every value, dw and z_d
\* included, as it was.
UnknownNamesIgnored ==
    [][\A i \in Sims :
          Built(i) =>
              /\ DOMAIN sims[i].params =
                     DOMAIN DefaultParameters(sims[i].backend)
              /\ DOMAIN sims'[i].params = DOMAIN sims[i].params
              /\ sims'[i].kw_ignored = "all" =>
                     sims'[i].params = sims[i].params]_vars

\* C13 witness: after an update that changed N, an update named only names
\* that are not keys of params
UnknownNamesIgnoredWitness ==
    \E i \in Sims :
        /\ Built(i)
        /\ sims[i].kw_ignored = "all"
        /\ sims[i].params["N"] # R(DefaultN)

\* the cross-spectral matrices of the call of frame f over all its points
CpsdOf(i, f) ==
    IF sims[i].backend = "jax"
    THEN jax_build_spectrum_matrix(f.positions, f.frequencies,
                                   JaxSpectrumFunc(f.component), f.params)
    ELSE build_spectrum_matrix(f.positions, f.frequencies, f.component,
                               f.params, sims[i].spectrum)

Symmetric(S) ==
    \A l \in 1..Len(S) : \A a \in 1..Len(S[l]) : \A b \in 1..Len(S[l]) :
        S[l][a][b] = S[l][b][a]

\* C14: the cross-spectral matrix of every frequency is symmetric, in both
\* backends: the matrices of a returned call over its points, and the
\* matrices a point batch assembles from its frequency sub-batches.
CpsdSymmetric ==
    \A i \in Sims :
        /\ frame[i].pc = "done" => Symmetric(CpsdOf(i, frame[i]))
        /\ frame[i].pc \in {"freqs", "process"} =>
               Symmetric(frame[i].S_matrices_full)

\* C14 witness: a call on two points at different places with different
\* wind speeds returned
CpsdSymmetricWitness ==
    \E i \in Sims :
        /\ frame[i].pc = "done"
        /\ Len(frame[i].positions) >= 2
        /\ frame[i].positions[1].U # frame[i].positions[2].U
        /\ CpsdOf(i, frame[i])[1][1][2].coh # CoherenceOne

SameCoordinates(p, q) == p.x = q.x /\ p.y = q.y /\ p.z = q.z

\* the one-point spectrum of point p at frequency w in the call of frame f
PsdOf(i, f, w, p) ==
    IF sims[i].backend = "jax"
    THEN calculate_spectrum_for_position(w, p.z, JaxSpectrumFunc(f.component),
                                         f.params)
    ELSE calculate_power_spectrum(w, p.z, f.component, sims[i].spectrum)

\* the matrices S over the points ps at the frequencies of frame f have
\* coherence 1 between points at one place and the one-point spectrum on
\* the diagonal
UnitCoherence(i, f, S, ps) ==
    \A l \in 1..Len(S) : \A a \in 1..Len(ps) : \A b \in 1..Len(ps) :
        /\ SameCoordinates(ps[a], ps[b]) => S[l][a][b].coh = CoherenceOne
        /\ a = b =>
               S[l][a][a] =
                   calculate_cross_spectrum(PsdOf(i, f, f.frequencies[l], ps[a]),
                                            PsdOf(i, f, f.frequencies[l], ps[a]),
                                            CoherenceOne)

\* C15: between two points with the same coordinates the coherence is 1 at
\* every frequency, whatever their wind speeds (a zero or negative sum
\* included), and every diagonal entry of a cross-spectral matrix is the
\* one-point spectrum, in both backends.
CoherenceAtZeroSeparation ==
    \A i \in Sims :
        /\ frame[i].pc = "done" =>
               UnitCoherence(i, frame[i], CpsdOf(i, frame[i]),
                             frame[i].positions)
        /\ frame[i].pc = "process" =>
               UnitCoherence(i, frame[i], frame[i].S_matrices_full,
                             frame[i].batch_positions)

\* C15 witness: a returned call on two points at one place whose wind
\* speeds differ and do not add up to a positive value
CoherenceAtZeroSeparationWitness ==
    \E i \in Sims :
        /\ frame[i].pc = "done"
        /\ Len(frame[i].positions) >= 2
        /\ SameCoordinates(frame[i].positions[1], frame[i].positions[2])
        /\ frame[i].positions[1].U # frame[i].positions[2].U
        /\ frame[i].positions[1].U + frame[i].positions[2].U <= 0

\* the frequency slices the sub-batches processed so far cover
SlicesCovered(f, N) == Min(f.freq_batch_idx * f.freq_batch_size, N)

\* the matrix of the point batch of frame f at its k-th frequency
SliceOf(i, f, k) ==
    build_spectrum_matrix(f.batch_positions, <<f.frequencies[k]>>,
                          f.component, f.params, sims[i].spectrum)[1]

\* an n x n block of np.zeros
ZeroSlice(n) == [a \in 1..n |-> [b \in 1..n |-> ZeroCpsd]]

\* C16: with freq_batch_size < N the sub-batches fill the slices of
\* S_matrices_full in ascending contiguous ranges, each slice once and with
\* the matrix of its own frequency; the factorization starts when all N
\* slices are written and not before, and the rows it gives are built from
\* the factor of every one of the N slices.
FullCpsdBeforeFactorization ==
    \A i \in Sims :
        LET f == frame[i]
            N == IntOf(f.params["N"])
            n == Len(f.batch_positions)
            r == get_batch_range(f.point_batch_idx - 1, f.point_batch_size,
                                 Len(f.positions))
        IN  /\ f.pc \in {"freqs", "process"} =>
                   /\ f.freq_batch_size < N
                   /\ Len(f.S_matrices_full) = N
                   /\ \A k \in 1..N :
                          IF k <= SlicesCovered(f, N)
                          THEN /\ f.slices_written[k] = 1
                               /\ f.S_matrices_full[k] = SliceOf(i, f, k)
                          ELSE /\ f.slices_written[k] = 0
                               /\ f.S_matrices_full[k] = ZeroSlice(n)
                   /\ (f.pc = "process") = (SlicesCovered(f, N) = N)
            /\ ( /\ f.pc \in {"points", "done"}
                 /\ f.freq_batch_size < N
                 /\ f.point_batch_idx >= 1 ) =>
                   \A j \in 1..n : \A l \in 1..N : \A m \in 1..j :
                       f.wind_samples[r[1] + j].B[l][m].H.blk =
                           LowerBlock(SliceOf(i, f, l), j)

\* C16 witness: the factorization is about to start after sub-batches the
\* last of which is shorter than the others
FullCpsdBeforeFactorizationWitness ==
    \E i \in Sims :
        /\ frame[i].pc = "process"
        /\ frame[i].freq_batch_idx >= 2
        /\ IntOf(frame[i].params["N"]) % frame[i].freq_batch_size # 0

\* the index of output row k among the points its factor was computed for
RowInBatch(f, k) ==
    IF f.batched THEN ((k - 1) % f.point_batch_size) + 1 ELSE k

\* C17: in the rows a simulate_wind call of either backend returns, B_j has
\* length M; for each of the first N frequencies it is the sum of the
\* terms (j, m) with m <= j, one for each such m and none with m > j; the
\* other M - N entries are zero.
TriangularMask ==
    \A i \in Sims :
        LET f == frame[i]
            N == IntOf(f.params["N"])
            M == IntOf(f.params["M"])
        IN  f.pc = "done" =>
                \A k \in 1..Len(f.wind_samples) :
                    LET B == f.wind_samples[k].B
                        j == RowInBatch(f, k)
                    IN  /\ Len(B) = M
                        /\ \A l \in 1..N :
                               /\ Len(B[l]) = j
                               /\ \A m \in 1..j :
                                      /\ ~B[l][m].H.zero
                                      /\ B[l][m].H.row = j
                                      /\ B[l][m].H.col = m
                        /\ \A l \in (N + 1)..M : B[l] = << >>

\* C17 witness: a NumPy and a JAX simulator both returned rows for two
\* points, with more time points than frequencies
TriangularMaskWitness ==
    \E i \in Sims : \E j \in Sims :
        /\ sims[i].backend = "numpy"
        /\ sims[j].backend = "jax"
        /\ frame[i].pc = "done"
        /\ ~frame[i].batched
        /\ frame[j].pc = "done"
        /\ Len(frame[i].wind_samples) >= 2
        /\ Len(frame[j].wind_samples) >= 2
        /\ IntOf(frame[i].params["N"]) < IntOf(frame[i].params["M"])
        /\ IntOf(frame[j].params["N"]) < IntOf(frame[j].params["M"])

\* the instance without its random state and the count of its calls
Untouched(sim) == [sim EXCEPT !.seed = 0, !.key = << >>, !.calls = 0]

\* C18: no step of a simulate_wind call, direct or batched, returning or
\* raising, changes the parameter mapping or any other state of the
\* instance than its random state, and the parameters at the end of the
\* call are those it started with.
ParamsNotMutated ==
    [][\A i \in Sims :
          (sims'[i].calls # sims[i].calls \/ frame'[i] # frame[i]) =>
              /\ sims'[i].params = sims[i].params
              /\ Untouched(sims'[i]) = Untouched(sims[i])
              /\ frame'[i].pc # "none" =>
                     sims'[i].params = frame'[i].params]_vars

\* C18 witness: after an update of N, the second call of a simulator
\* raised in the batched path
ParamsNotMutatedWitness ==
    \E i \in Sims :
        /\ sims[i].calls = 2
        /\ sims[i].params["N"] # R(DefaultN)
        /\ frame[i].batched
        /\ frame[i].pc = "raised"

\* C19: a point batch that went through the frequency sub-batches ends as
\* _simulate_fluctuating_wind ends for the same points and the same state
\* of the generator on entry: the same rows or the same exception, and the
\* generator left at the same position, for every sub-batch size.
FreqBatchingEquivalent ==
    [][\A i \in Sims :
          LET f == frame[i]
              g == frame'[i]
              r == get_batch_range(f.point_batch_idx, f.point_batch_size,
                                   Len(f.positions))
              direct == simulate_fluctuating_wind(f.batch_positions,
                            f.component, sims[i].params, sims[i].spectrum, rng)
          IN  ( /\ f.pc \in {"freqs", "process"}
                /\ g.pc \in {"points", "done", "raised"} ) =>
                  /\ g.err = direct.err
                  /\ rng' = direct.gen
                  /\ g.err = "none" =>
                         Slice(g.wind_samples, r[1], r[2]) = direct.samples]_vars

\* C19 witness: the rows of a batch of two points were stored after
\* sub-batches whose size does not divide N
FreqBatchingEquivalentWitness ==
    \E i \in Sims :
        /\ frame[i].pc \in {"points", "done"}
        /\ frame[i].point_batch_idx >= 1
        /\ Len(frame[i].batch_positions) >= 2
        /\ frame[i].freq_batch_size < IntOf(frame[i].params["N"])
        /\ IntOf(frame[i].params["N"]) % frame[i].freq_batch_size # 0

\* the generator the k-th call of a simulator built with seed s starts from
OwnGenerator(s, k) == [seed |-> s + k - 1, pos |-> 0]

\* what _simulate_fluctuating_wind gives for the points [start, end) of the
\* call of frame f when the generator of the call is offset draws further
OwnBatch(f, start, end, offset) ==
    simulate_fluctuating_wind(Slice(f.positions, start, end), f.component,
        f.params, f.params,
        [seed |-> f.gen0.seed, pos |-> offset])

\* C20: the k-th simulate_wind call of a NumPy simulator built with seed s
\* starts from the generator seeded with s + k - 1, and its outcome is the
\* one computed from that seed, its own inputs and its own parameters
\* alone, whatever other simulators were built or called since the process
\* started.
InstancesIsolated ==
    \A i \in Sims :
        LET f == frame[i]
            n == Len(f.positions)
            N == IntOf(f.params["N"])
        IN  (sims[i].backend = "numpy" /\ f.pc # "none") =>
                /\ f.gen0 = OwnGenerator(sims[i].seed0, f.call_no)
                /\ (~f.batched /\ Ended(f)) =>
                       /\ f.err = OwnBatch(f, 0, n, 0).err
                       /\ f.wind_samples = OwnBatch(f, 0, n, 0).samples
                /\ f.batched =>
                       \A b \in 0..(f.point_batch_idx - 1) :
                           LET r == get_batch_range(b, f.point_batch_size, n)
                           IN  Slice(f.wind_samples, r[1], r[2]) =
                                   OwnBatch(f, r[1], r[2], r[1] * N).samples

\* C20 witness: a NumPy simulator returned from its second call after the
\* other simulator, built with another seed, was called twice
InstancesIsolatedWitness ==
    \E i \in Sims : \E j \in Sims :
        /\ sims[i].backend = "numpy"
        /\ sims[j].backend = "numpy"
        /\ sims[i].seed0 # sims[j].seed0
        /\ frame[i].pc = "done"
        /\ frame[i].call_no = 2
        /\ sims[j].calls = 2
        /\ rng.seed = sims[i].seed0 + 1
        /\ rng.pos > 0

====
